---- MODULE Spec2Model ----
(***************************************************************************)
(* A model of ospgrid's Grid (src/src/ospgrid/grid.py): the node/member    *)
(* collections, the index counters, the polymorphic lookups get_node and   *)
(* get_member, the load/support setters and the hand-over to the solver.   *)
(*                                                                         *)
(* Python objects live in a heap: `heap` holds every Node ever built (a    *)
(* handle is its position in the heap and survives clear), `nodes` and     *)
(* `members` are the Grid's lists.  A Member holds references (handles) to *)
(* its two end nodes.                                                      *)
(***************************************************************************)
EXTENDS Integers, Sequences, FiniteSets, TLC

VARIABLES
    heap,        \* every Node object built so far; a handle is an index into it
    nodes,       \* Grid.nodes: list of handles, in creation order
    members,     \* Grid.members: list of Member objects
    no_nodes,    \* Grid.no_nodes
    no_members,  \* Grid.no_members
    osp,         \* the module-level OpenSees model (state of the solver library)
    last         \* the last call made on the grid: operation, argument, outcome

vars == <<heap, nodes, members, no_nodes, no_members, osp, last>>

----------------------------------------------------------------------------
(* Bounds of the model *)

\* Spec: Node objects built in one run, and the cap on the counter no_members
\* (the add_member calls between two clears)
MaxObjs == 2
MaxNoMembers == 2
\* SpecLookup: the same two caps
MaxLkObjs == 2
MaxLkNoMembers == 1
\* SpecLoad, SpecPair: the nodes of the grid each starts from
LdNodes == 2
PairNodes == 3
\* SpecSolve: the same two caps
MaxSvObjs == 2
MaxSvNoMembers == 1
\* SpecRun: the nodes of the grid it starts from
RunNodes == 2
\* SpecFix: the nodes of the grid it starts from
FixNodes == 1
\* SpecSupport: the nodes of the grid it starts from
SupNodes == 2
\* SpecStiff: the largest flexural and torsional rigidity of a member
MaxEI == 3
MaxGJ == 2

Labels == {"A", "B"}
Xs == {0, 3}
Ys == {0, 4}
EIs == {2}
GJs == {1}

----------------------------------------------------------------------------
(* Helpers: Python list semantics *)

Range(s) == {s[i] : i \in 1..Len(s)}

\* seq[i] in Python: 0-based, negative indices count from the end
PyInRange(s, i) == i >= 0 - Len(s) /\ i < Len(s)
PyIndex(s, i) == IF i >= 0 THEN s[i + 1] ELSE s[Len(s) + i + 1]

\* np.sqrt on the squared lengths the coordinate sets produce (0, 9, 16, 25)
Sqrt(n) == CHOOSE r \in 0..n : r * r = n

----------------------------------------------------------------------------
(* Outcomes and arguments *)

NoRef == [k |-> "none", s |-> "", s2 |-> "", i |-> 0]
NodeRef(h) == [k |-> "node", s |-> "", s2 |-> "", i |-> h]
StrRef(l) == [k |-> "str", s |-> l, s2 |-> "", i |-> 0]
IntRef(n) == [k |-> "int", s |-> "", s2 |-> "", i |-> n]
MemberRef(p) == [k |-> "member", s |-> "", s2 |-> "", i |-> p]
TupleRef(a, b) == [k |-> "tuple", s |-> a, s2 |-> b, i |-> 0]
OtherRef == [k |-> "other", s |-> "", s2 |-> "", i |-> 0]

\* Every error of grid.py is a ValueError or an IndexError; the ValueErrors are
\* told apart by their message:
\*   "AmbiguousLabel" = ValueError("More than one node has label ...")
\*   "NotFound"       = ValueError("Cannot find node ...") / ("... could not be found.")
\*   "BadArgument"    = ValueError("Either node object, label, or node id must be passed")
\*   "IndexError"     = list index out of range
Ok(v) == [err |-> "none", val |-> v]
Raise(e) == [err |-> e, val |-> 0]

\* the keyword arguments of a call as passed: <<>> for one the caller omits
NoArgs == [Fz |-> <<>>, Mx |-> <<>>, My |-> <<>>]
Call(op, ref, r) ==
    [op |-> op, ref |-> ref, args |-> NoArgs, ret |-> r.val, err |-> r.err]
CallArgs(op, ref, args, r) ==
    [op |-> op, ref |-> ref, args |-> args, ret |-> r.val, err |-> r.err]

----------------------------------------------------------------------------
(* Node and Member *)

Node(idx, label, x, y) ==
    [idx |-> idx, label |-> label, x |-> x, y |-> y,
     Fz |-> 0, Mx |-> 0, My |-> 0, support |-> "None"]

Member(idx, node_i, node_j, EI, GJ) ==
    LET delta_x == heap[node_j].x - heap[node_i].x
        delta_y == heap[node_j].y - heap[node_i].y
    IN [idx |-> idx, node_i |-> node_i, node_j |-> node_j, EI |-> EI, GJ |-> GJ,
        delta_x |-> delta_x, delta_y |-> delta_y,
        L |-> Sqrt(delta_x * delta_x + delta_y * delta_y)]

\* Quotients of the integers of the model, exact: n/d in lowest terms with d > 0.
\* A float division by L = 0.0 gives inf, -inf or nan: d = 0 and n the sign.
RECURSIVE GCD(_, _)
GCD(a, b) == IF b = 0 THEN a ELSE GCD(b, a % b)
Abs(a) == IF a < 0 THEN 0 - a ELSE a
Sign(a) == IF a < 0 THEN 0 - 1 ELSE IF a > 0 THEN 1 ELSE 0
Frac(n, d) ==
    IF d = 0 THEN [n |-> Sign(n), d |-> 0]
    ELSE LET g == GCD(Abs(n), Abs(d))
         IN [n |-> (Sign(d) * n) \div g, d |-> Abs(d) \div g]
Neg(q) == [n |-> 0 - q.n, d |-> q.d]
Zero == Frac(0, 1)

\* Member.get_local_stiffness with the far-end bending column of the far-end
\* vertical row taken from the start-end row
get_local_stiffness_sign_slip(m) ==
    LET k11 == Frac(12 * m.EI, m.L * m.L * m.L)
        k13 == Frac(6 * m.EI, m.L * m.L)
        k22 == Frac(m.GJ, m.L)
        k33 == Frac(4 * m.EI, m.L)
        k36 == Frac(2 * m.EI, m.L)
    IN << <<k11, Zero, k13, Neg(k11), Zero, k13>>,
          <<Zero, k22, Zero, Zero, Neg(k22), Zero>>,
          <<k13, Zero, k33, Neg(k13), Zero, k36>>,
          <<Neg(k11), Zero, Neg(k13), k11, Zero, k13>>,
          <<Zero, Neg(k22), Zero, Zero, k22, Zero>>,
          <<k13, Zero, k36, Neg(k13), Zero, k33>> >>

\* Member.get_local_stiffness
get_local_stiffness(m) ==
    LET k11 == Frac(12 * m.EI, m.L * m.L * m.L)
        k13 == Frac(6 * m.EI, m.L * m.L)
        k22 == Frac(m.GJ, m.L)
        k33 == Frac(4 * m.EI, m.L)
        k36 == Frac(2 * m.EI, m.L)
    IN << <<k11, Zero, k13, Neg(k11), Zero, k13>>,
          <<Zero, k22, Zero, Zero, Neg(k22), Zero>>,
          <<k13, Zero, k33, Neg(k13), Zero, k36>>,
          <<Neg(k11), Zero, Neg(k13), k11, Zero, Neg(k13)>>,
          <<Zero, Neg(k22), Zero, Zero, k22, Zero>>,
          <<k13, Zero, k36, Neg(k13), Zero, k33>> >>

----------------------------------------------------------------------------
(* Lookups *)

\* Grid.get_node: the handles of the grid's nodes that carry the label
node_match(label) == SelectSeq(nodes, LAMBDA h : heap[h].label = label)

get_node_first_match(ref) ==
    IF ref.k = "node" THEN Ok(ref.i)
    ELSE IF ref.k = "str" THEN
        IF Len(node_match(ref.s)) = 0 THEN Raise("NotFound")
        ELSE Ok(node_match(ref.s)[1])
    ELSE IF ref.k = "int" THEN
        IF PyInRange(nodes, ref.i) THEN Ok(PyIndex(nodes, ref.i))
        ELSE Raise("IndexError")
    ELSE Raise("BadArgument")

\* Grid.get_node looking a label up among every Node object, not only self.nodes
get_node_among_all(ref) ==
    LET all_match == SelectSeq([h \in 1..Len(heap) |-> h],
                               LAMBDA h : heap[h].label = ref.s)
    IN IF ref.k = "node" THEN Ok(ref.i)
       ELSE IF ref.k = "str" THEN
           IF Len(all_match) > 1 THEN Raise("AmbiguousLabel")
           ELSE IF Len(all_match) = 0 THEN Raise("NotFound")
           ELSE Ok(all_match[1])
       ELSE IF ref.k = "int" THEN
           IF PyInRange(nodes, ref.i) THEN Ok(PyIndex(nodes, ref.i))
           ELSE Raise("IndexError")
       ELSE Raise("BadArgument")

get_node(ref) ==
    IF ref.k = "node" THEN Ok(ref.i)
    ELSE IF ref.k = "str" THEN
        IF Len(node_match(ref.s)) > 1 THEN Raise("AmbiguousLabel")
        ELSE IF Len(node_match(ref.s)) = 0 THEN Raise("NotFound")
        ELSE Ok(node_match(ref.s)[1])
    ELSE IF ref.k = "int" THEN
        IF PyInRange(nodes, ref.i) THEN Ok(PyIndex(nodes, ref.i))
        ELSE Raise("IndexError")
    ELSE Raise("BadArgument")

\* sorted(member) == sorted(n_comb) for two pairs of labels
SamePair(a, b, c, d) == (a = c /\ b = d) \/ (a = d /\ b = c)

\* positions (in Grid.members) of the members the comprehension of get_member keeps
the_member(a, b) ==
    SelectSeq([p \in 1..Len(members) |-> p],
              LAMBDA p : SamePair(heap[members[p].node_i].label,
                                  heap[members[p].node_j].label, a, b))

\* some combination of a start label and an end label (of any two members) is the pair
CombinationExists(a, b) ==
    \E p \in 1..Len(members), q \in 1..Len(members) :
        SamePair(a, b, heap[members[p].node_i].label, heap[members[q].node_j].label)

\* Grid.get_member; a member is returned as its position in Grid.members
get_member(ref) ==
    IF ref.k = "member" THEN Ok(ref.i)
    ELSE IF ref.k = "int" THEN
        IF PyInRange(members, ref.i)
        THEN Ok(IF ref.i >= 0 THEN ref.i + 1 ELSE Len(members) + ref.i + 1)
        ELSE Raise("IndexError")
    ELSE IF ref.k = "tuple" THEN
        IF CombinationExists(ref.s, ref.s2) THEN
            IF Len(the_member(ref.s, ref.s2)) = 0 THEN Raise("IndexError")
            ELSE Ok(the_member(ref.s, ref.s2)[1])
        ELSE Raise("NotFound")
    ELSE Raise("BadArgument")

----------------------------------------------------------------------------
(* Support: the catalog of restraint patterns, DX DY DZ RX RY RZ *)

Support_roller_frees_rz ==
    [PINNED_X |-> <<1, 1, 1, 0, 1, 1>>,
     PINNED_Y |-> <<1, 1, 1, 1, 0, 1>>,
     PROP |-> <<1, 1, 1, 0, 0, 1>>,
     FIXED |-> <<1, 1, 1, 1, 1, 1>>,
     FIXED_V_ROLLER |-> <<1, 1, 0, 1, 1, 0>>]

Support ==
    [PINNED_X |-> <<1, 1, 1, 0, 1, 1>>,
     PINNED_Y |-> <<1, 1, 1, 1, 0, 1>>,
     PROP |-> <<1, 1, 1, 0, 0, 1>>,
     FIXED |-> <<1, 1, 1, 1, 1, 1>>,
     FIXED_V_ROLLER |-> <<1, 1, 0, 1, 1, 1>>]

\* the support argument of add_support: a Support member, a str, or None
EnumArg(name) == [k |-> "enum", s |-> name]
StrArg(c) == [k |-> "str", s |-> c]
NoneArg == [k |-> "none", s |-> "None"]

\* an optional keyword argument: <<>> when the caller omits it, <<v>> when given
Given(opt, default) == IF opt = <<>> THEN default ELSE opt[1]

----------------------------------------------------------------------------
(* Arguments the callers pass *)

Handles == 1..Len(heap)
RefsOver(ints) ==
    {NodeRef(h) : h \in Handles} \cup {StrRef(l) : l \in Labels}
        \cup {IntRef(n) : n \in ints} \cup {OtherRef}
Ints == -1..MaxObjs
NodeRefs == RefsOver(Ints)
MemberRefs ==
    {MemberRef(p) : p \in 1..Len(members)} \cup {IntRef(n) : n \in Ints}
        \cup {TupleRef(a, b) : a \in Labels, b \in Labels} \cup {OtherRef}

LoadArgs ==
    {[Fz |-> <<1>>, Mx |-> <<>>, My |-> <<>>],
     [Fz |-> <<>>, Mx |-> <<2>>, My |-> <<>>],
     [Fz |-> <<>>, Mx |-> <<>>, My |-> <<>>]}
SupportArgs == {StrArg("F"), StrArg("Q"), NoneArg}

----------------------------------------------------------------------------
(* The solver library: the model handed to OpenSees and the outcome of its run *)

EmptyOsp ==
    [nodes |-> <<>>, fixes |-> <<>>, elements |-> <<>>, loads |-> <<>>,
     analysed |-> FALSE, status |-> 0]

\* osp.analyze(1) returns 0 on success and a negative code when the solve fails
SolverStatuses == {0, -3}

----------------------------------------------------------------------------
(* Operations of Node and Grid *)

Init ==
    /\ heap = <<>>
    /\ nodes = <<>>
    /\ members = <<>>
    /\ no_nodes = 0
    /\ no_members = 0
    /\ osp = EmptyOsp
    /\ last = Call("init", NoRef, Ok(0))

\* Node.set_load: the node after the call
set_load_accumulates(n, Fz, Mx, My) ==
    [n EXCEPT !.Fz = @ + Fz, !.Mx = @ + Mx, !.My = @ + My]

set_load(n, Fz, Mx, My) == [n EXCEPT !.Fz = Fz, !.Mx = Mx, !.My = My]

\* Node.set_support: the node after the call
set_support(n, support) == [n EXCEPT !.support = support]

\* Grid.clear
clear_keeps_counters ==
    /\ nodes' = <<>>
    /\ members' = <<>>
    /\ UNCHANGED <<no_nodes, no_members>>
    /\ last' = Call("clear", NoRef, Ok(0))
    /\ UNCHANGED <<heap, osp>>

clear ==
    /\ nodes' = <<>>
    /\ members' = <<>>
    /\ no_nodes' = 0
    /\ no_members' = 0
    /\ last' = Call("clear", NoRef, Ok(0))
    /\ UNCHANGED <<heap, osp>>

\* Grid.add_node(label, x, y)
add_node(label, x, y) ==
    /\ no_nodes' = no_nodes + 1
    /\ heap' = Append(heap, Node(no_nodes', label, x, y))
    /\ nodes' = Append(nodes, Len(heap'))
    /\ last' = Call("add_node", NoRef, Ok(Len(heap')))
    /\ UNCHANGED <<members, no_members, osp>>

\* Grid.add_member(node_i, node_j, EI, GJ)
add_member(node_i, node_j, EI, GJ) ==
    LET the_node_i == get_node(node_i)
        the_node_j == get_node(node_j)
    IN /\ no_members' = no_members + 1
       /\ IF the_node_i.err # "none"
          THEN /\ members' = members
               /\ last' = Call("add_member", NoRef, Raise(the_node_i.err))
          ELSE IF the_node_j.err # "none"
          THEN /\ members' = members
               /\ last' = Call("add_member", NoRef, Raise(the_node_j.err))
          ELSE /\ members' = Append(members,
                       Member(no_members', the_node_i.val, the_node_j.val, EI, GJ))
               /\ last' = Call("add_member", NoRef, Ok(Len(members')))
       /\ UNCHANGED <<heap, nodes, no_nodes, osp>>

\* Grid.add_load(node, Fz=0, Mx=0, My=0)
add_load(node, Fz, Mx, My) ==
    LET the_node == get_node(node)
        passed == [Fz |-> Fz, Mx |-> Mx, My |-> My]
    IN /\ IF the_node.err # "none"
          THEN /\ heap' = heap
               /\ last' = CallArgs("add_load", node, passed, Raise(the_node.err))
          ELSE /\ heap' = [heap EXCEPT ![the_node.val] =
                               set_load(@, Given(Fz, 0), Given(Mx, 0), Given(My, 0))]
               /\ last' = CallArgs("add_load", node, passed, Ok(the_node.val))
       /\ UNCHANGED <<nodes, members, no_nodes, no_members, osp>>

\* Grid.add_support with the descriptors of the two pinned supports exchanged
add_support_swaps_pins(node, support) ==
    LET the_node == get_node(node)
        chosen ==
            IF support.k = "str" THEN
                IF support.s = "F" THEN "FIXED"
                ELSE IF support.s = "X" THEN "PINNED_Y"
                ELSE IF support.s = "Y" THEN "PINNED_X"
                ELSE IF support.s = "P" THEN "PROP"
                ELSE IF support.s = "V" THEN "FIXED_V_ROLLER"
                ELSE "unchanged"
            ELSE support.s
    IN /\ IF the_node.err # "none"
          THEN /\ heap' = heap
               /\ last' = CallArgs("add_support", node, support, Raise(the_node.err))
          ELSE /\ heap' = IF chosen = "unchanged" THEN heap
                          ELSE [heap EXCEPT ![the_node.val] = set_support(@, chosen)]
               /\ last' = CallArgs("add_support", node, support, Ok(the_node.val))
       /\ UNCHANGED <<nodes, members, no_nodes, no_members, osp>>

\* Grid.add_support(node, support=None)
add_support(node, support) ==
    LET the_node == get_node(node)
        chosen ==
            IF support.k = "str" THEN
                IF support.s = "F" THEN "FIXED"
                ELSE IF support.s = "X" THEN "PINNED_X"
                ELSE IF support.s = "Y" THEN "PINNED_Y"
                ELSE IF support.s = "P" THEN "PROP"
                ELSE IF support.s = "V" THEN "FIXED_V_ROLLER"
                ELSE "unchanged"
            ELSE support.s
    IN /\ IF the_node.err # "none"
          THEN /\ heap' = heap
               /\ last' = CallArgs("add_support", node, support, Raise(the_node.err))
          ELSE /\ heap' = IF chosen = "unchanged" THEN heap
                          ELSE [heap EXCEPT ![the_node.val] = set_support(@, chosen)]
               /\ last' = CallArgs("add_support", node, support, Ok(the_node.val))
       /\ UNCHANGED <<nodes, members, no_nodes, no_members, osp>>

\* What Grid.analyze hands to OpenSees after osp.wipe(), from the grid alone
OspNodes ==
    [p \in 1..Len(nodes) |->
        [tag |-> heap[nodes[p]].idx, x |-> heap[nodes[p]].x, y |-> heap[nodes[p]].y]]
OspFixes ==
    LET supported == SelectSeq(nodes, LAMBDA h : heap[h].support # "None")
    IN [p \in 1..Len(supported) |->
           [tag |-> heap[supported[p]].idx,
            flags |-> Support[heap[supported[p]].support]]]
\* the section properties I, J, A are EI and GJ scaled by the nominal E and G
OspElements ==
    [p \in 1..Len(members) |->
        [tag |-> members[p].idx,
         ndI |-> heap[members[p].node_i].idx, ndJ |-> heap[members[p].node_j].idx,
         EI |-> members[p].EI, GJ |-> members[p].GJ]]
OspLoads ==
    LET loaded == SelectSeq(nodes, LAMBDA h :
                      heap[h].Fz # 0 \/ heap[h].Mx # 0 \/ heap[h].My # 0)
    IN [p \in 1..Len(loaded) |->
           [tag |-> heap[loaded[p]].idx,
            vals |-> <<0, 0, heap[loaded[p]].Fz, heap[loaded[p]].Mx,
                       heap[loaded[p]].My, 0>>]]

\* elements OpenSees may refuse: an end tag that is no node of the model, or two
\* ends at the same place
RefusedElements ==
    {p \in 1..Len(members) :
        \/ members[p].L = 0
        \/ heap[members[p].node_i].idx \notin {OspNodes[q].tag : q \in 1..Len(nodes)}
        \/ heap[members[p].node_j].idx \notin {OspNodes[q].tag : q \in 1..Len(nodes)}}

\* Grid.analyze without the osp.wipe() that starts it
analyze_without_wipe(status, refuses) ==
    /\ osp' = [nodes |-> osp.nodes \o OspNodes, fixes |-> osp.fixes \o OspFixes,
               elements |-> osp.elements \o OspElements,
               loads |-> osp.loads \o OspLoads,
               analysed |-> TRUE, status |-> status]
    /\ last' = Call("analyze", NoRef, Ok(0))
    /\ UNCHANGED <<heap, nodes, members, no_nodes, no_members>>

\* Grid.analyze.  `status` is what osp.analyze(1) returns; `refuses` says whether
\* the library raises on the first element of RefusedElements or takes it.
analyze(status, refuses) ==
    /\ IF refuses /\ RefusedElements # {}
       THEN LET bad == CHOOSE p \in RefusedElements :
                           \A q \in RefusedElements : p <= q
            IN /\ osp' = [nodes |-> OspNodes, fixes |-> OspFixes,
                          elements |-> SubSeq(OspElements, 1, bad - 1),
                          loads |-> <<>>, analysed |-> FALSE, status |-> 0]
               /\ last' = Call("analyze", NoRef, Raise("OpenSeesError"))
       ELSE /\ osp' = [nodes |-> OspNodes, fixes |-> OspFixes,
                       elements |-> OspElements, loads |-> OspLoads,
                       analysed |-> TRUE, status |-> status]
            /\ last' = Call("analyze", NoRef, Ok(0))
    /\ UNCHANGED <<heap, nodes, members, no_nodes, no_members>>

\* osp.nodeDisp / osp.nodeReaction / osp.eleForce: OpenSees answers from the model
\* it holds, for a tag of that model, and raises for any other tag
OspNodeTags == {osp.nodes[q].tag : q \in 1..Len(osp.nodes)}
OspElementTags == {osp.elements[q].tag : q \in 1..Len(osp.elements)}
nodeDisp(tag) == IF tag \in OspNodeTags THEN Ok(tag) ELSE Raise("OpenSeesError")
nodeReaction(tag) == IF tag \in OspNodeTags THEN Ok(tag) ELSE Raise("OpenSeesError")
eleForce(tag) == IF tag \in OspElementTags THEN Ok(tag) ELSE Raise("OpenSeesError")

\* Grid.get_displacement(node): the answer of OpenSees for the node's tag
get_displacement(node) ==
    LET found == get_node(node)
    IN IF found.err # "none" THEN Raise(found.err)
       ELSE nodeDisp(heap[found.val].idx)

\* Grid.get_reactions(node)
get_reactions(node) ==
    LET found == get_node(node)
    IN IF found.err # "none" THEN Raise(found.err)
       ELSE nodeReaction(heap[found.val].idx)

\* Grid.get_member_forces(member)
get_member_forces(member) ==
    LET found == get_member(member)
    IN IF found.err # "none" THEN Raise(found.err)
       ELSE eleForce(members[found.val].idx)

----------------------------------------------------------------------------
(* Spec: nodes, members, clear and the lookups *)

AddNode ==
    /\ Len(heap) < MaxObjs
    /\ \E label \in Labels, x \in Xs, y \in Ys : add_node(label, x, y)

AddMember ==
    /\ no_members < MaxNoMembers
    /\ \E node_i \in NodeRefs, node_j \in NodeRefs, EI \in EIs, GJ \in GJs :
           add_member(node_i, node_j, EI, GJ)

Clear == clear

GetNode ==
    /\ \E ref \in NodeRefs : last' = Call("get_node", ref, get_node(ref))
    /\ UNCHANGED <<heap, nodes, members, no_nodes, no_members, osp>>

GetMember ==
    /\ \E ref \in MemberRefs : last' = Call("get_member", ref, get_member(ref))
    /\ UNCHANGED <<heap, nodes, members, no_nodes, no_members, osp>>

Next == AddNode \/ AddMember \/ Clear \/ GetNode \/ GetMember

Spec == Init /\ [][Next]_vars

----------------------------------------------------------------------------
(* SpecLookup: the lookups and clear; the k-th Node built lies at the k-th    *)
(* corner of a 3 x 4 rectangle, the callers choose its label.                 *)

CornerXs == <<0, 3, 3, 0>>
CornerYs == <<0, 0, 4, 4>>
CornerX(h) == CornerXs[((h - 1) % 4) + 1]
CornerY(h) == CornerYs[((h - 1) % 4) + 1]

LkAddNode ==
    /\ Len(heap) < MaxLkObjs
    /\ \E label \in Labels :
           add_node(label, CornerX(Len(heap) + 1), CornerY(Len(heap) + 1))

LkAddMember ==
    /\ no_members < MaxLkNoMembers
    /\ \E node_i \in NodeRefs, node_j \in NodeRefs, EI \in EIs, GJ \in GJs :
           add_member(node_i, node_j, EI, GJ)

NextLookup == LkAddNode \/ LkAddMember \/ Clear \/ GetNode \/ GetMember

SpecLookup == Init /\ [][NextLookup]_vars

----------------------------------------------------------------------------
(* SpecLoad: loads and supports on a grid that has been built.  It starts     *)
(* where add_node (LdNodes times, any labels) and add_member (joining each     *)
(* node to the next one) leave the grid.                                       *)

\* the grid after add_node(labels[k], corner k) for each k and add_member(k, k+1)
\* for each node k but the last
Built(labels) ==
    /\ heap = [h \in 1..Len(labels) |-> Node(h, labels[h], CornerX(h), CornerY(h))]
    /\ nodes = [h \in 1..Len(labels) |-> h]
    /\ no_nodes = Len(labels)
    /\ \E EI \in EIs, GJ \in GJs :
           members = [p \in 1..(Len(labels) - 1) |-> Member(p, p, p + 1, EI, GJ)]
    /\ no_members = Len(labels) - 1
    /\ osp = EmptyOsp
    /\ last = Call("init", NoRef, Ok(0))

InitLoad == \E labels \in [1..LdNodes -> Labels] : Built(labels)

LdRefs == RefsOver(-1..LdNodes)

AddLoad ==
    \E node \in LdRefs, a \in LoadArgs : add_load(node, a.Fz, a.Mx, a.My)

AddSupport ==
    \E node \in LdRefs, support \in SupportArgs : add_support(node, support)

NextLoad == AddLoad \/ AddSupport \/ Clear

SpecLoad == InitLoad /\ [][NextLoad]_vars

----------------------------------------------------------------------------
(* SpecPair: the lookups on a chain of PairNodes nodes, each joined to the next *)

InitPair == \E labels \in [1..PairNodes -> Labels] : Built(labels)

PairGetNode ==
    /\ \E ref \in RefsOver(-1..PairNodes) :
           last' = Call("get_node", ref, get_node(ref))
    /\ UNCHANGED <<heap, nodes, members, no_nodes, no_members, osp>>

PairGetMember ==
    /\ \E ref \in {MemberRef(p) : p \in 1..Len(members)}
                   \cup {IntRef(n) : n \in -1..PairNodes}
                   \cup {TupleRef(a, b) : a \in Labels, b \in Labels} :
           last' = Call("get_member", ref, get_member(ref))
    /\ UNCHANGED <<heap, nodes, members, no_nodes, no_members, osp>>

NextPair == PairGetNode \/ PairGetMember \/ Clear

SpecPair == InitPair /\ [][NextPair]_vars

----------------------------------------------------------------------------
(* SpecSolve: building a grid and handing it to the solver *)

SvLoadArgs ==
    {[Fz |-> <<1>>, Mx |-> <<>>, My |-> <<>>],
     [Fz |-> <<>>, Mx |-> <<>>, My |-> <<>>]}
SvSupportArgs == {StrArg("F"), NoneArg}

SvAddNode ==
    /\ Len(heap) < MaxSvObjs
    /\ \E x \in Xs : add_node("A", x, 0)

SvAddMember ==
    /\ no_members < MaxSvNoMembers
    /\ \E node_i \in Handles, node_j \in Handles, EI \in EIs, GJ \in GJs :
           add_member(NodeRef(node_i), NodeRef(node_j), EI, GJ)

SvAddLoad ==
    \E node \in Handles, a \in SvLoadArgs : add_load(NodeRef(node), a.Fz, a.Mx, a.My)

SvAddSupport ==
    \E node \in Handles, support \in SvSupportArgs : add_support(NodeRef(node), support)

Analyze ==
    \E status \in SolverStatuses, refuses \in BOOLEAN : analyze(status, refuses)

NextSolve ==
    SvAddNode \/ SvAddMember \/ SvAddLoad \/ SvAddSupport \/ Clear \/ Analyze

SpecSolve == Init /\ [][NextSolve]_vars

----------------------------------------------------------------------------
(* SpecRun: analyses and result queries on a chain of RunNodes nodes, between  *)
(* changes of its loads and supports and a clear                               *)

InitRun == Built([h \in 1..RunNodes |-> "A"])

RunAddLoad ==
    \E node \in Handles, a \in SvLoadArgs : add_load(NodeRef(node), a.Fz, a.Mx, a.My)

RunAddSupport ==
    \E node \in Handles, support \in SvSupportArgs : add_support(NodeRef(node), support)

GetDisplacement ==
    /\ \E node \in Handles :
           last' = Call("get_displacement", NodeRef(node), get_displacement(NodeRef(node)))
    /\ UNCHANGED <<heap, nodes, members, no_nodes, no_members, osp>>

GetReactions ==
    /\ \E node \in Handles :
           last' = Call("get_reactions", NodeRef(node), get_reactions(NodeRef(node)))
    /\ UNCHANGED <<heap, nodes, members, no_nodes, no_members, osp>>

GetMemberForces ==
    /\ \E member \in {IntRef(0), TupleRef("A", "A")} :
           last' = Call("get_member_forces", member, get_member_forces(member))
    /\ UNCHANGED <<heap, nodes, members, no_nodes, no_members, osp>>

NextRun ==
    \/ RunAddLoad \/ RunAddSupport \/ Clear \/ Analyze
    \/ GetDisplacement \/ GetReactions \/ GetMemberForces

SpecRun == InitRun /\ [][NextRun]_vars

----------------------------------------------------------------------------
(* SpecFix: analyses of a chain of FixNodes nodes under every support of the   *)
(* catalog                                                                     *)

InitFix == Built([h \in 1..FixNodes |-> "A"])

Descriptors == {"X", "Y", "F", "V", "P"}
FixSupportArgs == {StrArg(c) : c \in Descriptors} \cup {NoneArg}

FixAddLoad ==
    \E node \in Handles, a \in SvLoadArgs : add_load(NodeRef(node), a.Fz, a.Mx, a.My)

FixAddSupport ==
    \E node \in Handles, support \in FixSupportArgs : add_support(NodeRef(node), support)

NextFix == FixAddLoad \/ FixAddSupport \/ Clear \/ Analyze

SpecFix == InitFix /\ [][NextFix]_vars

----------------------------------------------------------------------------
(* SpecSupport: every support argument on a chain of SupNodes nodes *)

InitSupport == Built([h \in 1..SupNodes |-> IF h = 1 THEN "A" ELSE "B"])

SupRefs == RefsOver(-1..SupNodes)
SupSupportArgs ==
    {StrArg(c) : c \in Descriptors \cup {"Q"}}
        \cup {EnumArg(name) : name \in DOMAIN Support} \cup {NoneArg}

SupAddSupport ==
    \E node \in SupRefs, support \in SupSupportArgs : add_support(node, support)

NextSupport == SupAddSupport \/ Clear

SpecSupport == InitSupport /\ [][NextSupport]_vars

----------------------------------------------------------------------------
(* SpecStiff: the local stiffness matrix of one member, between any two corners *)
(* of the rectangle and of any rigidity up to MaxEI and MaxGJ                   *)

InitStiff ==
    /\ \E i \in 1..4, j \in 1..4 :
           heap = <<Node(1, "A", CornerX(i), CornerY(i)),
                    Node(2, "B", CornerX(j), CornerY(j))>>
    /\ nodes = <<1, 2>>
    /\ no_nodes = 2
    /\ \E EI \in 1..MaxEI, GJ \in 1..MaxGJ : members = <<Member(1, 1, 2, EI, GJ)>>
    /\ no_members = 1
    /\ osp = EmptyOsp
    /\ last = Call("init", NoRef, Ok(0))

GetLocalStiffness ==
    /\ \E p \in 1..Len(members) :
           last' = Call("get_local_stiffness", MemberRef(p),
                        Ok(get_local_stiffness(members[p])))
    /\ UNCHANGED <<heap, nodes, members, no_nodes, no_members, osp>>

NextStiff == GetLocalStiffness

SpecStiff == InitStiff /\ [][NextStiff]_vars

----------------------------------------------------------------------------
(* Claims *)

Loads(n) == <<n.Fz, n.Mx, n.My>>
Failed(call) == call.err # "none"
ResolutionErrors == {"NotFound", "AmbiguousLabel", "IndexError"}
\* positions of the grid's nodes that carry a label
Carrying(label) == {p \in 1..Len(nodes) : heap[nodes[p]].label = label}
\* positions of the members whose two end labels are a and b, in either order
Connecting(a, b) ==
    {p \in 1..Len(members) :
        \/ heap[members[p].node_i].label = a /\ heap[members[p].node_j].label = b
        \/ heap[members[p].node_i].label = b /\ heap[members[p].node_j].label = a}

\* C1: node and member indices are dense and start at 1 after any sequence of
\* add_node, add_member and clear calls, failing calls included: the k-th node has
\* idx k, the k-th member has idx k, and the counters are the lengths of the lists.
C1_DenseIndices ==
    /\ \A k \in 1..Len(nodes) : heap[nodes[k]].idx = k
    /\ \A k \in 1..Len(members) : members[k].idx = k
    /\ no_nodes = Len(nodes)
    /\ no_members = Len(members)

\* C2: an add_member, add_load or add_support call whose node reference does not
\* resolve raises and leaves the lists, the counters and every node as they were.
C2_FailedCallChangesNothing ==
    [][(/\ last'.op \in {"add_member", "add_load", "add_support"}
        /\ last'.err \in ResolutionErrors)
       => UNCHANGED <<heap, nodes, members, no_nodes, no_members>>]_vars

\* C3: get_node with a label returns the node carrying it when exactly one node of
\* the grid does, fails with AmbiguousLabel when several do and with NotFound when
\* none does, and leaves the grid unchanged.
C3_GetNodeByLabel ==
    [][(last'.op = "get_node" /\ last'.ref.k = "str") =>
          /\ Cardinality(Carrying(last'.ref.s)) = 1 =>
                 /\ last'.err = "none"
                 /\ \E p \in Carrying(last'.ref.s) : last'.ret = nodes[p]
          /\ Cardinality(Carrying(last'.ref.s)) > 1 => last'.err = "AmbiguousLabel"
          /\ Cardinality(Carrying(last'.ref.s)) = 0 => last'.err = "NotFound"
          /\ UNCHANGED <<heap, nodes, members, no_nodes, no_members>>]_vars

C3_Witness ==
    /\ last.op = "get_node"
    /\ last.ref.k = "str"
    /\ last.err = "AmbiguousLabel"
    /\ Cardinality(Carrying(last.ref.s)) = 2

\* C4: get_node(n.idx) returns n for every node n of the grid and get_member(m.idx)
\* returns m for every member m; an integer that is the index of no node / member
\* (zero, negative, above the count) fails with IndexError.
C4_LookupById ==
    /\ (last.op = "get_node" /\ last.ref.k = "int") =>
          IF \E p \in 1..Len(nodes) : heap[nodes[p]].idx = last.ref.i
          THEN /\ last.err = "none"
               /\ last.ret \in Range(nodes)
               /\ heap[last.ret].idx = last.ref.i
          ELSE last.err = "IndexError"
    /\ (last.op = "get_member" /\ last.ref.k = "int") =>
          IF \E p \in 1..Len(members) : members[p].idx = last.ref.i
          THEN /\ last.err = "none"
               /\ members[last.ret].idx = last.ref.i
          ELSE last.err = "IndexError"

\* C5: get_member with a pair of labels fails with NotFound whenever no member has
\* those two end labels (in either order), also when one label starts one member
\* and the other ends a different member.
C5_PairNotFound ==
    (/\ last.op = "get_member"
     /\ last.ref.k = "tuple"
     /\ Connecting(last.ref.s, last.ref.s2) = {})
    => last.err = "NotFound"

\* C6: a member returned by get_member for a pair of labels is the only member
\* with those two end labels, and the pair reversed gives the same member; with
\* several such members the lookup fails.
C6_PairResolvesToOne ==
    (/\ last.op = "get_member"
     /\ last.ref.k = "tuple"
     /\ last.err = "none")
    => /\ Connecting(last.ref.s, last.ref.s2) = {last.ret}
       /\ get_member(TupleRef(last.ref.s2, last.ref.s)) = Ok(last.ret)

\* C7: add_load overwrites: after a successful call the node's (Fz, Mx, My) are the
\* arguments of that call, 0 for an omitted one, and nothing else of the node, no
\* other node and no member changes; no other call changes any node's load.
C7_LoadOverwrites ==
    [][IF last'.op = "add_load" /\ last'.err = "none"
       THEN /\ last'.ret \in Handles
            /\ last'.ref.k = "node" => last'.ret = last'.ref.i
            /\ last'.ref.k = "str" => heap[last'.ret].label = last'.ref.s
            /\ Loads(heap'[last'.ret]) =
                   <<IF last'.args.Fz = <<>> THEN 0 ELSE last'.args.Fz[1],
                     IF last'.args.Mx = <<>> THEN 0 ELSE last'.args.Mx[1],
                     IF last'.args.My = <<>> THEN 0 ELSE last'.args.My[1]>>
            /\ heap' = [heap EXCEPT ![last'.ret] =
                           [@ EXCEPT !.Fz = heap'[last'.ret].Fz,
                                     !.Mx = heap'[last'.ret].Mx,
                                     !.My = heap'[last'.ret].My]]
            /\ UNCHANGED <<nodes, members, no_nodes, no_members>>
       ELSE \A h \in Handles : Loads(heap'[h]) = Loads(heap[h])]_vars

C7_Witness ==
    /\ last.op = "add_load"
    /\ last.err = "none"
    /\ last.args.Fz = <<>>
    /\ last.args.Mx # <<>>
    /\ Loads(heap[last.ret]) = <<0, last.args.Mx[1], 0>>
    /\ \E h \in Handles \ {last.ret} : heap[h].Fz # 0
    /\ members # <<>>

\* C8 as stated: clear empties both lists and zeroes both counters, the next
\* add_node returns idx 1, the next add_member a member with idx 1, and every
\* lookup by label or integer fails until new nodes are added.
ClearResetsCounters ==
    /\ last'.op = "clear" =>
          nodes' = <<>> /\ members' = <<>> /\ no_nodes' = 0 /\ no_members' = 0
    /\ (nodes = <<>> /\ last'.op = "add_node") => heap'[last'.ret].idx = 1
    /\ (last.op = "clear" /\ last'.op = "add_member" /\ last'.err = "none") =>
          members'[last'.ret].idx = 1

C9_NoZeroLengthMember == \A p \in 1..Len(members) : members[p].L > 0

\* C10: analyze on a grid with nodes and no support, or whose solve fails, fails
\* with Singular instead of returning the result handle.
C10_SingularIsRaised ==
    (/\ last.op = "analyze"
     /\ nodes # <<>>
     /\ \/ \A p \in 1..Len(nodes) : heap[nodes[p]].support = "None"
        \/ osp.status # 0)
    => last.err = "Singular"

\* C11: every analyze rebuilds the solver model from the current grid alone: the
\* nodes, fixities, elements and nodal loads in the solver after a returned analyze
\* are exactly those of the grid's nodes and members, one each, and an analyze
\* that stops at a refused element leaves nothing but a part of them.
SeqSet(s) == {s[q] : q \in 1..Len(s)}
GridNodes == {[tag |-> heap[h].idx, x |-> heap[h].x, y |-> heap[h].y] : h \in Range(nodes)}
GridFixes ==
    {[tag |-> heap[h].idx, flags |-> Support[heap[h].support]] :
        h \in {g \in Range(nodes) : heap[g].support # "None"}}
GridElements ==
    {[tag |-> m.idx, ndI |-> heap[m.node_i].idx, ndJ |-> heap[m.node_j].idx,
      EI |-> m.EI, GJ |-> m.GJ] : m \in Range(members)}
GridLoads ==
    {[tag |-> heap[h].idx, vals |-> <<0, 0, heap[h].Fz, heap[h].Mx, heap[h].My, 0>>] :
        h \in {g \in Range(nodes) : Loads(heap[g]) # <<0, 0, 0>>}}

C11_RebuiltFromGrid ==
    [][last'.op = "analyze" =>
          /\ SeqSet(osp'.nodes) = GridNodes /\ Len(osp'.nodes) = Len(nodes)
          /\ SeqSet(osp'.fixes) = GridFixes
          /\ Len(osp'.fixes) = Cardinality({p \in 1..Len(nodes) :
                                               heap[nodes[p]].support # "None"})
          /\ SeqSet(osp'.elements) \subseteq GridElements
          /\ SeqSet(osp'.loads) \subseteq GridLoads
          /\ last'.err = "none" =>
                /\ SeqSet(osp'.elements) = GridElements
                /\ Len(osp'.elements) = Len(members)
                /\ SeqSet(osp'.loads) = GridLoads
                /\ Len(osp'.loads) = Cardinality({p \in 1..Len(nodes) :
                                        Loads(heap[nodes[p]]) # <<0, 0, 0>>})]_vars

\* an analyze returned on a grid emptied by clear: the solver holds no node
C11_Witness ==
    /\ last.op = "analyze" /\ last.err = "none"
    /\ Len(heap) > 0 /\ nodes = <<>>
    /\ osp.nodes = <<>> /\ osp.elements = <<>> /\ osp.analysed

\* the degrees of freedom by their place in a fixity or load vector
DX == 1
DY == 2
DZ == 3
RX == 4
RY == 5
RZ == 6
NonActive == {DX, DY, RZ}
FixesOf(model, tag) == {q \in 1..Len(model.fixes) : model.fixes[q].tag = tag}

Named ==
    [X |-> "PINNED_X", Y |-> "PINNED_Y", F |-> "FIXED", V |-> "FIXED_V_ROLLER",
     P |-> "PROP"]
Frees ==
    [PINNED_X |-> {RX}, PINNED_Y |-> {RY}, FIXED |-> {}, FIXED_V_ROLLER |-> {DZ},
     PROP |-> {RX, RY}]
Variant(support) == IF support.k = "str" THEN Named[support.s] ELSE support.s

C13_SupportOverwritten ==
    [][(/\ last'.op = "add_support" /\ last'.err = "none"
        /\ \/ last'.args.k = "enum"
           \/ last'.args.k = "str" /\ last'.args.s \in DOMAIN Named)
       => /\ heap' = [heap EXCEPT ![last'.ret].support = Variant(last'.args)]
          /\ {d \in 1..6 : Support[heap'[last'.ret].support][d] = 0}
                = Frees[Variant(last'.args)]]_vars

\* a vertical roller put by descriptor on a node that had another support, next to
\* a propped node
C13_Witness ==
    /\ last.op = "add_support" /\ last.err = "none"
    /\ last.args = StrArg("V")
    /\ heap[last.ret].support = "FIXED_V_ROLLER"
    /\ \E h \in Range(nodes) : h # last.ret /\ heap[h].support = "PROP"

\* C14: get_displacement, get_reactions and get_member_forces never answer from a
\* model other than the grid's current one: whenever one of them returns, the
\* model the solver holds and answers from is the model of the grid as it is now.
Queries == {"get_displacement", "get_reactions", "get_member_forces"}

C14_ResultsAreCurrent ==
    (last.op \in Queries /\ last.err = "none") =>
        /\ SeqSet(osp.nodes) = GridNodes
        /\ SeqSet(osp.fixes) = GridFixes
        /\ SeqSet(osp.elements) = GridElements
        /\ SeqSet(osp.loads) = GridLoads

\* C15: for a member with L > 0 the local stiffness matrix is symmetric, with, in
\* the order vertical, twist, bending per end: 12EI/L^3 on the vertical diagonals
\* and its negative between the two vertical freedoms; 6EI/L^2 between a vertical
\* and a bending freedom, positive in the start-end vertical row and negative in
\* the far-end one; GJ/L on the twist diagonals and its negative across the ends,
\* twist coupled to nothing else; 4EI/L on the bending diagonals and 2EI/L between
\* the two bending freedoms; and it maps the rigid vertical translation
\* (1,0,0,1,0,0) to zero.
Vertical == {1, 4}
Twist == {2, 5}
Bending == {3, 6}
\* the quotient q is n/d
Is(q, n, d) == q.d # 0 /\ q.n * d = n * q.d

C15_LocalStiffness ==
    (last.op = "get_local_stiffness" /\ members[last.ref.i].L > 0) =>
        LET K == last.ret
            EI == members[last.ref.i].EI
            GJ == members[last.ref.i].GJ
            L == members[last.ref.i].L
        IN /\ \A i \in 1..6 : \A j \in 1..6 : K[i][j] = K[j][i]
           /\ \A i \in Vertical : \A j \in Vertical :
                 Is(K[i][j], IF i = j THEN 12 * EI ELSE 0 - 12 * EI, L * L * L)
           /\ \A i \in Vertical : \A j \in Bending :
                 Is(K[i][j], IF i = 1 THEN 6 * EI ELSE 0 - 6 * EI, L * L)
           /\ \A i \in Twist : \A j \in Twist :
                 Is(K[i][j], IF i = j THEN GJ ELSE 0 - GJ, L)
           /\ \A i \in Twist : \A j \in Vertical \cup Bending : Is(K[i][j], 0, 1)
           /\ \A i \in Bending : \A j \in Bending :
                 Is(K[i][j], IF i = j THEN 4 * EI ELSE 2 * EI, L)
           /\ \A i \in 1..6 : K[i][1].n * K[i][4].d + K[i][4].n * K[i][1].d = 0

\* the matrix of a member along a diagonal of the rectangle, of length 5
C15_Witness ==
    /\ last.op = "get_local_stiffness"
    /\ members[last.ref.i].L = 5 /\ members[last.ref.i].EI = 3
    /\ members[last.ref.i].GJ = 2
    /\ last.ret[1][1] = [n |-> 36, d |-> 125]
    /\ last.ret[4][6] = [n |-> 0 - 18, d |-> 25]
    /\ last.ret[5][2] = [n |-> 0 - 2, d |-> 5]

\* both end nodes of every member are nodes of the grid
AllOwned ==
    \A p \in 1..Len(members) :
        members[p].node_i \in Range(nodes) /\ members[p].node_j \in Range(nodes)
\* every element analyze would hand over connects node tags it would define
ElementsConnectDefined ==
    \A q \in 1..Len(OspElements) :
        /\ OspElements[q].ndI \in {OspNodes[r].tag : r \in 1..Len(OspNodes)}
        /\ OspElements[q].ndJ \in {OspNodes[r].tag : r \in 1..Len(OspNodes)}
\* a node reference that is not the handle of a node the grid does not hold
Current(ref) == ref.k = "node" => ref.i \in Range(nodes)

\* C16 as stated: after any add_node, add_member and clear calls, with handles,
\* labels or integers as node references, both end nodes of every member are nodes
\* of the grid.
C16_MembersOwnTheirNodes_AsStated == AllOwned

\* C16 amended: as long as every node handle passed to add_member is a node the
\* grid holds at that call (labels and integers as they come), after any add_node,
\* add_member and clear calls both end nodes of every member are nodes of the
\* grid, and every element analyze hands over connects node tags it defines.
C16_MembersOwnTheirNodes ==
    [][(/\ AllOwned
        /\ last'.op = "add_member" =>
              \E node_i \in {r \in NodeRefs : Current(r)},
                 node_j \in {r \in NodeRefs : Current(r)}, EI \in EIs, GJ \in GJs :
                  add_member(node_i, node_j, EI, GJ))
       => AllOwned' /\ ElementsConnectDefined']_vars

\* a member added, by label or integer, to a grid that was cleared and given a
\* new node while a handle from before the clear is still around
C16_Witness ==
    /\ last.op = "add_member" /\ last.err = "none"
    /\ members # <<>>
    /\ AllOwned
    /\ Len(heap) > Len(nodes)

====
